---------------------------- MODULE Spec2Model ----------------------------
(***************************************************************************)
(* A model of the media summarizer web application (app.py, youtube.py,    *)
(* translate.py, transcribe.py, summary.py): the POST /process handler,    *)
(* the background worker threads it starts, the shared processing_status   *)
(* map they write without synchronisation, and the pure validation and     *)
(* translation helpers.                                                    *)
(*                                                                         *)
(* Python values are records tagged by "kind".  A str is a sequence of     *)
(* one-character strings when the program looks inside it (user input,     *)
(* service output, paths), a literal when the program only stores it, and  *)
(* a format when it is an f-string with one hole.                          *)
(***************************************************************************)
EXTENDS Naturals, Sequences, FiniteSets, TLC

\* ------------------------------------------------------------ bounds
\* Number of POST /process requests the clients send.
MaxRequests == 2

\* ------------------------------------------------------------ Python values
None == [kind |-> "None"]
Str(cs) == [kind |-> "str", chars |-> cs]
Lit(t) == [kind |-> "lit", text |-> t]
Fmt(t, a) == [kind |-> "fstr", template |-> t, arg |-> a]
Int(n) == [kind |-> "int", n |-> n]
Dict(k, g) == [kind |-> "dict", kannada |-> k, kanglish |-> g]

IsStr(v) == v.kind = "str"

\* Python truthiness of the values the program tests with "not".
Truthy(v) ==
  CASE v.kind = "None" -> FALSE
    [] v.kind = "str" -> v.chars # <<>>
    [] v.kind = "int" -> v.n # 0
    [] OTHER -> TRUE

\* ------------------------------------------------------------ characters
LowerSeq == <<"a", "b", "c", "d", "e", "f", "g", "h", "i", "j", "k", "l", "m",
              "n", "o", "p", "q", "r", "s", "t", "u", "v", "w", "x", "y", "z">>
UpperSeq == <<"A", "B", "C", "D", "E", "F", "G", "H", "I", "J", "K", "L", "M",
              "N", "O", "P", "Q", "R", "S", "T", "U", "V", "W", "X", "Y", "Z">>
DigitSeq == <<"0", "1", "2", "3", "4", "5", "6", "7", "8", "9">>

Range(s) == {s[i] : i \in 1..Len(s)}

\* \w of the re module on the characters of the model.
IsWordChar(c) == c \in Range(LowerSeq) \cup Range(UpperSeq) \cup Range(DigitSeq) \cup {"_"}
\* \s of the re module, and what str.strip() removes.
IsSpace(c) == c \in {" ", "\t", "\n", "\r"}

LowerChar(c) ==
  IF c \in Range(UpperSeq)
    THEN LowerSeq[CHOOSE i \in 1..Len(UpperSeq) : UpperSeq[i] = c]
    ELSE c

\* str.lower()
lower(s) == [i \in 1..Len(s) |-> LowerChar(s[i])]

SetMin(S) == CHOOSE x \in S : \A y \in S : x <= y
SetMax(S) == CHOOSE x \in S : \A y \in S : x >= y

\* str.strip()
strip(s) ==
  LET keep == {i \in 1..Len(s) : ~IsSpace(s[i])}
  IN  IF keep = {} THEN <<>> ELSE SubSeq(s, SetMin(keep), SetMax(keep))

\* s[:n]
Take(s, n) == SubSeq(s, 1, IF Len(s) < n THEN Len(s) ELSE n)
\* s[n:]
Drop(s, n) == SubSeq(s, n + 1, Len(s))

\* Index of the last occurrence of c in s, 0 when there is none (str.rfind + 1).
RFind(s, c) ==
  LET at == {i \in 1..Len(s) : s[i] = c}
  IN  IF at = {} THEN 0 ELSE SetMax(at)

\* s.rsplit(c, 1)
rsplit1(s, c) ==
  LET k == RFind(s, c)
  IN  IF k = 0 THEN <<s>> ELSE <<SubSeq(s, 1, k - 1), SubSeq(s, k + 1, Len(s))>>

\* os.path.splitext on a POSIX path: the extension starts at the last dot of the
\* last path component, unless only dots precede it there.
splitext(p) ==
  LET sepIndex == RFind(p, "/")
      dotIndex == RFind(p, ".")
  IN  IF dotIndex > sepIndex
         /\ \E i \in (sepIndex + 1)..(dotIndex - 1) : p[i] # "."
        THEN <<SubSeq(p, 1, dotIndex - 1), SubSeq(p, dotIndex, Len(p))>>
        ELSE <<p, <<>> >>

\* os.path.basename on a POSIX path
basename(p) == Drop(p, RFind(p, "/"))

\* os.path.join(folder, name) on POSIX
pathjoin(folder, name) ==
  IF name # <<>> /\ name[1] = "/" THEN name
  ELSE IF folder = <<>> \/ folder[Len(folder)] = "/" THEN folder \o name
  ELSE folder \o <<"/">> \o name

\* ------------------------------------------------------------ app.py helpers
SUPPORTED_EXTENSIONS ==
    { <<"m", "p", "4">>, <<"w", "e", "b", "m">>, <<"m", "o", "v">>, <<"a", "v", "i">>,
      <<"m", "k", "v">>, <<"f", "l", "v">>, <<"w", "m", "v">>, <<"m", "4", "v">>,
      <<"3", "g", "p">>, <<"o", "g", "v">>, <<"a", "s", "f">>, <<"t", "s">>,
      <<"r", "m">>, <<"r", "m", "v", "b">>, <<"m", "p", "g">>,
      <<"m", "p", "3">>, <<"w", "a", "v">>, <<"o", "g", "g">>, <<"a", "a", "c">>,
      <<"f", "l", "a", "c">>, <<"m", "4", "a">>, <<"w", "m", "a">>,
      <<"o", "p", "u", "s">>, <<"m", "k", "a">> }

UPLOAD_FOLDER == <<"u", "p", "l", "o", "a", "d", "s">>

\* Shortest text /process accepts.
MinTextLen == 10

\* validate_file_format that compares the extension as it was typed.
validate_file_format_as_typed(filename) ==
  IF ~Truthy(filename) THEN <<FALSE, Lit("No filename provided")>>
  ELSE IF "." \notin Range(filename.chars) THEN <<FALSE, Lit("File has no extension")>>
  ELSE LET file_ext == rsplit1(filename.chars, ".")[2]
       IN  IF file_ext \notin SUPPORTED_EXTENSIONS
             THEN <<FALSE, Fmt("Unsupported format: .{}", Str(file_ext))>>
             ELSE <<TRUE, Lit("Valid format")>>

\* validate_file_format(filename): <<is_valid, message>>.
validate_file_format(filename) ==
  IF ~Truthy(filename) THEN <<FALSE, Lit("No filename provided")>>
  ELSE IF "." \notin Range(filename.chars) THEN <<FALSE, Lit("File has no extension")>>
  ELSE LET file_ext == lower(rsplit1(filename.chars, ".")[2])
       IN  IF file_ext \notin SUPPORTED_EXTENSIONS
             THEN <<FALSE, Fmt("Unsupported format: .{}", Str(file_ext))>>
             ELSE <<TRUE, Lit("Valid format")>>

\* ------------------------------------------------------------ youtube.py
\* Longest file name sanitize_filename leaves alone, and what it keeps of a longer stem.
SanitizeMaxLen == 100
SanitizeStemLen == 96

\* The class [<>:"/\\|?*] of the first substitution.
IsInvalidChar(c) == c \in {"<", ">", ":", "\"", "/", "\\", "|", "?", "*"}
\* The complement of the class [^\w\s\-_\.] of the second substitution.
IsKeptChar(c) == IsWordChar(c) \/ IsSpace(c) \/ c \in {"-", "_", "."}
\* The class [\s_] of the third substitution.
IsSpaceOrUnderscore(c) == IsSpace(c) \/ c = "_"

NotInvalidChar(c) == ~IsInvalidChar(c)

\* A character of s with the one before it: a run of white space and
\* underscores is replaced once, where it starts.
RunStart(pair) == ~(IsSpaceOrUnderscore(pair[1]) /\ IsSpaceOrUnderscore(pair[2]))

\* re.sub(r'[\s_]+', '_', s)
CollapseRuns(s) ==
  LET pairs == [i \in 1..Len(s) |-> <<s[i], IF i = 1 THEN "" ELSE s[i - 1]>>]
      starts == SelectSeq(pairs, RunStart)
  IN  [i \in 1..Len(starts) |->
         IF IsSpaceOrUnderscore(starts[i][1]) THEN "_" ELSE starts[i][1]]

\* sanitize_filename without its third substitution: white space stays.
sanitize_filename_keeps_spaces(filename) ==
  IF filename = <<>> THEN <<"u", "n", "n", "a", "m", "e", "d", "_", "f", "i", "l", "e">>
  ELSE LET s1 == SelectSeq(filename, NotInvalidChar)
           s2 == SelectSeq(s1, IsKeptChar)
       IN  IF Len(s2) > SanitizeMaxLen
             THEN LET parts == splitext(s2)
                  IN  Take(parts[1], SanitizeStemLen) \o <<".", ".", ".">> \o parts[2]
             ELSE s2

\* sanitize_filename(filename), on the characters of the name.
sanitize_filename(filename) ==
  IF filename = <<>> THEN <<"u", "n", "n", "a", "m", "e", "d", "_", "f", "i", "l", "e">>
  ELSE LET s1 == SelectSeq(filename, NotInvalidChar)
           s2 == SelectSeq(s1, IsKeptChar)
           s3 == CollapseRuns(s2)
       IN  IF Len(s3) > SanitizeMaxLen
             THEN LET parts == splitext(s3)
                  IN  Take(parts[1], SanitizeStemLen) \o <<".", ".", ".">> \o parts[2]
             ELSE s3

\* The literal part of the pattern of validate_youtube_url.
YoutubePrefix ==
  <<"h", "t", "t", "p", "s", ":", "/", "/", "w", "w", "w", ".", "y", "o", "u", "t",
    "u", "b", "e", ".", "c", "o", "m", "/", "w", "a", "t", "c", "h", "?", "v", "=">>
\* The repetition count of the class [\w-] in the pattern.
VideoIdLen == 11

\* The pattern without its "$": anything may follow the video id.
ReMatchYoutubeUnanchored(s) ==
  LET n == Len(YoutubePrefix)
      m == n + VideoIdLen
  IN  /\ Len(s) >= m
      /\ \A i \in 1..n : s[i] = YoutubePrefix[i]
      /\ \A i \in (n + 1)..m : IsWordChar(s[i]) \/ s[i] = "-"

\* re.match(r'^https://www\.youtube\.com/watch\?v=([\w-]{11})$', s): the literal, then
\* VideoIdLen characters of [\w-], then "$", which matches at the end of the string and
\* also just before a newline that ends the string.
ReMatchYoutube(s) ==
  LET n == Len(YoutubePrefix)
      m == n + VideoIdLen
  IN  /\ Len(s) >= m
      /\ \A i \in 1..n : s[i] = YoutubePrefix[i]
      /\ \A i \in (n + 1)..m : IsWordChar(s[i]) \/ s[i] = "-"
      /\ \/ Len(s) = m
         \/ Len(s) = m + 1 /\ s[m + 1] = "\n"

\* validate_youtube_url(url): the url itself, or None.
validate_youtube_url(url) ==
  IF ~Truthy(url) THEN None
  ELSE IF ReMatchYoutube(strip(url.chars)) THEN url
  ELSE None

\* ------------------------------------------------------------ call results
\* What a call does: it returns a value, or it raises an exception with a message.
Ok(v) == [raised |-> FALSE, value |-> v]
Raise(m) == [raised |-> TRUE, message |-> m]

\* ------------------------------------------------------------ translate.py
\* What requests.post and the decoding of its answer can do in get_deepseek_response.
Answer(content) == [kind |-> "ok", content |-> content]
Timeout == [kind |-> "timeout"]
HttpError == [kind |-> "http_error"]
Malformed == [kind |-> "malformed"]

\* How much of the text the fallback texts quote.
FallbackQuoteLen == 100

\* get_deepseek_response(prompt), given what the remote call does.
get_deepseek_response(outcome) ==
  CASE outcome.kind = "timeout" -> Raise(Lit("Translation service timeout"))
    [] outcome.kind = "http_error" -> Raise(Lit("Translation service error"))
    [] outcome.kind = "malformed" -> Raise(Lit("'choices'"))
    [] OTHER -> Ok(outcome.content)

\* The cleaning both get_kannada_translation and get_kanglish_translation do:
\* strip, drop a leading label (case-insensitively), strip again.
CleanTranslation(response, label) ==
  IF ~IsStr(response)
    THEN Raise(Lit("'NoneType' object has no attribute 'strip'"))
    ELSE LET translation == strip(response.chars)
         IN  IF Take(lower(translation), Len(label)) = label
               THEN Ok(Str(strip(Drop(translation, Len(label)))))
               ELSE Ok(Str(translation))

\* get_kannada_translation(text), given what the remote call does.
get_kannada_translation(text, outcome) ==
  LET response == get_deepseek_response(outcome)
  IN  IF response.raised THEN response
      ELSE CleanTranslation(response.value, <<"k", "a", "n", "n", "a", "d", "a", ":">>)

\* get_kanglish_translation(text), given what the remote call does.
get_kanglish_translation(text, outcome) ==
  LET response == get_deepseek_response(outcome)
  IN  IF response.raised THEN response
      ELSE CleanTranslation(response.value, <<"k", "a", "n", "g", "l", "i", "s", "h", ":">>)

\* get_fallback_translations(text)
get_fallback_translations(text) ==
  IF IsStr(text)
    THEN Dict(Fmt("ಸಾರಾಂಶ (ಪರೀಕ್ಷಾ ಆವೃತ್ತಿ): ಈ ವಿಷಯದ ಮುಖ್ಯ ಅಂಶಗಳನ್ನು ಶೀಘ್ರದಲ್ಲೇ ಸ್ವಯಂ ಅನುವಾದಿಸಲಾಗುತ್ತದೆ. ಮೂಲ ಪಠ್ಯ: {}...",
                  Str(Take(text.chars, FallbackQuoteLen))),
              Fmt("Summary (test version): Main points inda auto-translation soon ready aagutaade. Original text: {}...",
                  Str(Take(text.chars, FallbackQuoteLen))))
    ELSE Dict(Lit("ಅನುವಾದ ಸೇವೆ ಲಭ್ಯವಿಲ್ಲ."), Lit("Translation service not available."))

\* What create_translations returns, with the remote calls it made on the way.
Returned(v, posts) == [raised |-> FALSE, value |-> v, posts |-> posts]

\* create_translations that falls back for each language on its own.
create_translations_per_language(text, kannadaOutcome, kanglishOutcome) ==
  IF ~Truthy(text)
    THEN Returned(Dict(Lit("ಅನುವಾದಿಸಲು ಯಾವುದೇ ವಿಷಯ ಲಭ್ಯವಿಲ್ಲ."),
                       Lit("No content available for translation.")), <<>>)
  ELSE IF ~IsStr(text)
    THEN Returned(Dict(Lit("ಅನುವಾದ ದೋಷ ಸಂಭವಿಸಿದೆ."), Lit("Translation error occurred.")), <<>>)
  ELSE IF Len(strip(text.chars)) = 0
    THEN Returned(Dict(Lit("ಅನುವಾದಿಸಲು ಯಾವುದೇ ವಿಷಯ ಲಭ್ಯವಿಲ್ಲ."),
                       Lit("No content available for translation.")), <<>>)
  ELSE LET kannada_translation == get_kannada_translation(text, kannadaOutcome)
           kanglish_translation == get_kanglish_translation(text, kanglishOutcome)
           fallback == get_fallback_translations(text)
       IN  Returned(Dict(IF kannada_translation.raised THEN fallback.kannada
                                                       ELSE kannada_translation.value,
                         IF kanglish_translation.raised THEN fallback.kanglish
                                                        ELSE kanglish_translation.value),
                    <<"kannada", "kanglish">>)

\* create_translations without its handlers: a failure of a remote call goes up.
create_translations_unguarded(text, kannadaOutcome, kanglishOutcome) ==
  IF ~Truthy(text)
    THEN Returned(Dict(Lit("ಅನುವಾದಿಸಲು ಯಾವುದೇ ವಿಷಯ ಲಭ್ಯವಿಲ್ಲ."),
                       Lit("No content available for translation.")), <<>>)
  ELSE IF ~IsStr(text)
    THEN Raise(Lit("'int' object has no attribute 'strip'"))
  ELSE IF Len(strip(text.chars)) = 0
    THEN Returned(Dict(Lit("ಅನುವಾದಿಸಲು ಯಾವುದೇ ವಿಷಯ ಲಭ್ಯವಿಲ್ಲ."),
                       Lit("No content available for translation.")), <<>>)
  ELSE LET kannada_translation == get_kannada_translation(text, kannadaOutcome)
           kanglish_translation == get_kanglish_translation(text, kanglishOutcome)
       IN  IF kannada_translation.raised THEN kannada_translation
           ELSE IF kanglish_translation.raised THEN kanglish_translation
           ELSE Returned(Dict(kannada_translation.value, kanglish_translation.value),
                         <<"kannada", "kanglish">>)

\* create_translations(text), given what the two remote calls do.  The Kanglish
\* call is made only when the Kannada call and its cleaning went through.
create_translations(text, kannadaOutcome, kanglishOutcome) ==
  IF ~Truthy(text)
    THEN Returned(Dict(Lit("ಅನುವಾದಿಸಲು ಯಾವುದೇ ವಿಷಯ ಲಭ್ಯವಿಲ್ಲ."),
                       Lit("No content available for translation.")), <<>>)
  ELSE IF ~IsStr(text)
    THEN Returned(Dict(Lit("ಅನುವಾದ ದೋಷ ಸಂಭವಿಸಿದೆ."), Lit("Translation error occurred.")), <<>>)
  ELSE IF Len(strip(text.chars)) = 0
    THEN Returned(Dict(Lit("ಅನುವಾದಿಸಲು ಯಾವುದೇ ವಿಷಯ ಲಭ್ಯವಿಲ್ಲ."),
                       Lit("No content available for translation.")), <<>>)
  ELSE LET kannada_translation == get_kannada_translation(text, kannadaOutcome)
           kanglish_translation == get_kanglish_translation(text, kanglishOutcome)
       IN  IF kannada_translation.raised
             THEN Returned(get_fallback_translations(text), <<"kannada">>)
           ELSE IF kanglish_translation.raised
             THEN Returned(get_fallback_translations(text), <<"kannada", "kanglish">>)
           ELSE Returned(Dict(kannada_translation.value, kanglish_translation.value),
                         <<"kannada", "kanglish">>)

\* ------------------------------------------------------------ transcribe.py
\* What the speech-to-text service can do with a file.
Transcript(text, duration) == [kind |-> "ok", text |-> text, duration |-> duration]
TranscriptError(error) == [kind |-> "status_error", error |-> error]
ServiceRaises(message) == [kind |-> "raise", message |-> message]

\* process_audio_transcription(audio_source), given what the service does.  A
\* transcript with status "error" raises inside the try block, so its message is
\* wrapped twice; a transcript without text fails at len(transcript.text).
process_audio_transcription(audio_source, outcome) ==
  CASE outcome.kind = "raise" -> Raise(Fmt("Transcription failed: {}", outcome.message))
    [] outcome.kind = "status_error" ->
         Raise(Fmt("Transcription failed: {}", Fmt("Transcription failed: {}", outcome.error)))
    [] OTHER ->
         IF IsStr(outcome.text)
           THEN Ok([text |-> outcome.text, duration |-> outcome.duration])
           ELSE Raise(Fmt("Transcription failed: {}",
                          Lit("object of type 'NoneType' has no len()")))

\* ------------------------------------------------------------ summary.py
\* summarize_openrouter(text), given what the chat-completion service does.
summarize_openrouter(text, outcome) ==
  CASE outcome.kind = "raise" -> Raise(outcome.message)
    [] OTHER ->
         IF IsStr(outcome.content)
           THEN Ok(Str(strip(outcome.content.chars)))
           ELSE Raise(Lit("'NoneType' object has no attribute 'strip'"))

\* ------------------------------------------------------------ the environment
\* What the services answer.  Their texts are derived from what they are given, so
\* that a result in the status map shows which request it came from.
TranscriberOutcomes(audio_source) ==
  { Transcript(Str(<<"h", "e", "a", "r", "d", " ">> \o basename(audio_source.chars)), Lit("1:23")),
    TranscriptError(Lit("audio could not be decoded")),
    ServiceRaises(Lit("connection refused")) }

SummarizerOutcomes(text) ==
  { Answer(Str(<<" ", "~">> \o Take(text.chars, 7) \o <<" ">>)),
    Answer(Str(<<" ", " ">>)),
    ServiceRaises(Lit("rate limit exceeded")) }

DeepseekOutcomes ==
  { Answer(Str(<<"K", "a", "n", "n", "a", "d", "a", ":", " ", "k", "n", " ">>)),
    Timeout, HttpError, Malformed }

\* What download_youtube_video(url, folder) does: the path of the merged MP4 under
\* the folder, or an exception, which it wraps.
DownloadOutcomes(url) ==
  { Ok(Str(pathjoin(UPLOAD_FOLDER, sanitize_filename(<<"v", "i", "d", "?">>) \o <<".", "m", "p", "4">>))),
    Raise(Fmt("YouTube download failed: {}", Lit("No MP4 file found after download"))) }

\* What FileStorage.save(path) does.
SaveOutcomes == { Ok(None), Raise(Lit("[Errno 28] No space left on device")) }

\* ------------------------------------------------------------ state
Requests == 1..MaxRequests

VARIABLES
  processing_status,    \* the shared status map of create_app
  request,              \* request[r]: the form and file of request r, None before it arrives
  hpc,                  \* hpc[r]: where the handler of request r is in process()
  response,             \* response[r]: what process() answered
  media_source,         \* closure variable of process(): path of the stored media
  text_input,           \* closure variable of process(): the stripped text
  threads,              \* threads[r]: how many worker threads request r started
  wpc,                  \* wpc[r]: where the worker thread of request r is
  transcription_result, \* local of process_media_input
  summary_result,       \* local summary_result / english_sum of the workers
  translation_result,   \* local translation_result / translations of the workers
  exc,                  \* the exception a worker caught (str(e)), None when none
  calls,                \* calls[r]: the service and file-system calls made for request r
  uploads,              \* the files in the upload folder
  caller,               \* a direct call of create_translations and what it returned
  requests_overlapped,  \* a request has arrived while an earlier one was still running
  jobs_overlapped       \* a worker has been started while another was still running

vars == <<processing_status, request, hpc, response, media_source, text_input, threads,
          wpc, transcription_result, summary_result, translation_result, exc, calls,
          uploads, caller, requests_overlapped, jobs_overlapped>>

\* What the program's own steps leave alone besides its variables.
aside == <<caller, requests_overlapped, jobs_overlapped>>

handlerVars == <<request, hpc, response, media_source, text_input, threads>>
workerVars == <<wpc, transcription_result, summary_result, translation_result, exc>>

\* ------------------------------------------------------------ the status map
\* Records list their fields in the order in which TLC stores them; the order
\* carries no meaning, a Python dict being compared by its keys and values.
Stage(complete, result, progress, error) ==
  [error |-> error, complete |-> complete, result |-> result, progress |-> progress]
Final(success, error, filename, duration, input_type) ==
  [filename |-> filename, duration |-> duration, error |-> error, success |-> success,
   input_type |-> input_type]

EmptyStr == Str(<<>>)
InitialStage == Stage(FALSE, None, None, FALSE)
InitialFinal == Final(FALSE, None, EmptyStr, Lit("--:--"), EmptyStr)

InitialStatus ==
  [translation |-> InitialStage, transcription |-> InitialStage,
   summary |-> InitialStage, final |-> InitialFinal]

\* processing_status[key] = value, one assignment of one thread.
SetStatus(key, value) ==
  processing_status' = [processing_status EXCEPT ![key] = value]

NoResponse == [key |-> "", code |-> 0, body |-> None]
Json(code, key, body) == [key |-> key, code |-> code, body |-> body]

Call(op, arg) == [arg |-> arg, op |-> op]
Record(r, op, arg) == calls' = [calls EXCEPT ![r] = Append(@, Call(op, arg))]

NotCalling == [state |-> "off"]

\* The state after create_app().
InitProgram ==
  /\ processing_status = InitialStatus
  /\ request = [r \in Requests |-> None]
  /\ hpc = [r \in Requests |-> "idle"]
  /\ response = [r \in Requests |-> NoResponse]
  /\ media_source = [r \in Requests |-> None]
  /\ text_input = [r \in Requests |-> None]
  /\ threads = [r \in Requests |-> 0]
  /\ wpc = [r \in Requests |-> "idle"]
  /\ transcription_result = [r \in Requests |-> None]
  /\ summary_result = [r \in Requests |-> None]
  /\ translation_result = [r \in Requests |-> None]
  /\ exc = [r \in Requests |-> None]
  /\ calls = [r \in Requests |-> <<>>]
  /\ uploads = {}

Init ==
  /\ InitProgram
  /\ caller = NotCalling
  /\ requests_overlapped = FALSE
  /\ jobs_overlapped = FALSE

\* ------------------------------------------------------------ POST /process
\* The form and the file of a request.  A field the client did not send is None.
Form(inputType, file, youtubeUrl, textInput) ==
  [inputType |-> inputType, file |-> file, youtubeUrl |-> youtubeUrl, textInput |-> textInput]

\* request.form.get(name, '')
FormGet(value) == IF value = None THEN EmptyStr ELSE value

\* download_youtube_video(url, download_folder), given what yt-dlp does.
download_youtube_video(url, outcome) ==
  IF validate_youtube_url(url) = None
    THEN Raise(Fmt("YouTube download failed: {}",
                   Lit("Invalid YouTube URL format. Only full URLs like https://www.youtube.com/watch?v=VIDEO_ID are supported.")))
    ELSE outcome

\* The handler answers and returns.
Respond(r, code, key, body) ==
  /\ response' = [response EXCEPT ![r] = Json(code, key, body)]
  /\ hpc' = [hpc EXCEPT ![r] = "done"]

\* The handler goes on to the step at.
Goto(r, at) ==
  /\ hpc' = [hpc EXCEPT ![r] = at]
  /\ UNCHANGED response

\* No handler and no worker is running.
Quiescent == \A q \in Requests : hpc[q] \in {"idle", "done"} /\ wpc[q] \in {"idle", "done"}
\* No worker is running.
NoJobRunning == \A q \in Requests : wpc[q] \in {"idle", "done"}

\* A request arrives (requests are numbered in the order they arrive) and process()
\* starts reset_status(): the first key of the map is reset.
ProcessBegin(r, form) ==
  /\ hpc[r] = "idle"
  /\ \A q \in Requests : q < r => hpc[q] # "idle"
  /\ request' = [request EXCEPT ![r] = form]
  /\ SetStatus("transcription", InitialStage)
  /\ Goto(r, "reset_summary")
  /\ requests_overlapped' = (requests_overlapped \/ ~Quiescent)
  /\ UNCHANGED <<media_source, text_input, threads, workerVars, calls, uploads, caller,
                 jobs_overlapped>>

\* reset_status(): the second key.
ResetSummary(r) ==
  /\ hpc[r] = "reset_summary"
  /\ SetStatus("summary", InitialStage)
  /\ Goto(r, "reset_translation")
  /\ UNCHANGED <<request, media_source, text_input, threads, workerVars, calls, uploads, aside>>

\* reset_status(): the third key.
ResetTranslation(r) ==
  /\ hpc[r] = "reset_translation"
  /\ SetStatus("translation", InitialStage)
  /\ Goto(r, "reset_final")
  /\ UNCHANGED <<request, media_source, text_input, threads, workerVars, calls, uploads, aside>>

\* reset_status() that forgets the final entry.
ResetFinalForgotten(r) ==
  /\ hpc[r] = "reset_final"
  /\ Goto(r, "route")
  /\ UNCHANGED <<processing_status, request, media_source, text_input, threads, workerVars,
                 calls, uploads, aside>>

\* reset_status(): the final entry; process() goes on to read the input type.
ResetFinal(r) ==
  /\ hpc[r] = "reset_final"
  /\ SetStatus("final", InitialFinal)
  /\ Goto(r, "route")
  /\ UNCHANGED <<request, media_source, text_input, threads, workerVars, calls, uploads, aside>>

\* The branch of process() for inputType 'file', up to the validation of the name.
RouteFile(r) ==
  LET uploaded_file == request[r].file
      checked == validate_file_format(uploaded_file)
  IN  IF ~Truthy(uploaded_file)
        THEN Respond(r, 400, "error", Lit("No file provided"))
      ELSE IF ~checked[1]
        THEN Respond(r, 400, "error", checked[2])
      ELSE Goto(r, "save")

\* The branch of process() for inputType 'youtube', up to the validation of the URL.
RouteYoutube(r) ==
  LET youtube_url == Str(strip(FormGet(request[r].youtubeUrl).chars))
  IN  IF ~Truthy(youtube_url)
        THEN Respond(r, 400, "error", Lit("No YouTube URL provided"))
      ELSE IF ~Truthy(validate_youtube_url(youtube_url))
        THEN Respond(r, 400, "error",
                     Lit("Invalid YouTube URL format. Only https://www.youtube.com/watch?v=VIDEO_ID is supported."))
      ELSE Goto(r, "download")

\* The text process() works on: the field, stripped.
StrippedText(r) == Str(strip(FormGet(request[r].textInput).chars))

\* The text branch without the check of the length.
RouteTextAnyLength(r) ==
  IF ~Truthy(StrippedText(r))
    THEN Respond(r, 400, "error", Lit("No text provided"))
  ELSE Goto(r, "start_text")

\* The branch of process() for inputType 'text', up to the check of the length.
RouteText(r) ==
  IF ~Truthy(StrippedText(r))
    THEN Respond(r, 400, "error", Lit("No text provided"))
  ELSE IF Len(StrippedText(r).chars) < MinTextLen
    THEN Respond(r, 400, "error", Lit("Text too short. Please provide at least 10 characters."))
  ELSE Goto(r, "start_text")

\* process() after reset_status(): the input type decides the branch, and the
\* branch validates its input.
ProcessRoute(r) ==
  /\ hpc[r] = "route"
  /\ LET input_type == request[r].inputType
     IN  CASE input_type = Lit("file") -> RouteFile(r)
           [] input_type = Lit("youtube") -> RouteYoutube(r)
           [] input_type = Lit("text") -> RouteText(r)
           [] OTHER -> Respond(r, 400, "error",
                               Lit("Invalid input type. Must be file, youtube, or text."))
  /\ text_input' = [text_input EXCEPT ![r] =
                      IF hpc'[r] = "start_text" THEN StrippedText(r) ELSE @]
  /\ UNCHANGED <<processing_status, request, media_source, threads, workerVars, calls,
                 uploads, aside>>

\* process() stores an accepted upload under its sanitized name.
ProcessSave(r) ==
  /\ hpc[r] = "save"
  /\ LET safe_filename == sanitize_filename(request[r].file.chars)
         file_path == Str(pathjoin(UPLOAD_FOLDER, safe_filename))
     IN  /\ Record(r, "save", file_path)
         /\ \E saved \in SaveOutcomes :
              IF saved.raised
                THEN /\ Respond(r, 500, "error", saved.message)
                     /\ UNCHANGED <<media_source, uploads>>
                ELSE /\ Goto(r, "start_media")
                     /\ media_source' = [media_source EXCEPT ![r] = file_path]
                     /\ uploads' = uploads \cup {file_path}
  /\ UNCHANGED <<processing_status, request, text_input, threads, workerVars, aside>>

\* process() downloads the video of an accepted URL.
ProcessDownload(r) ==
  /\ hpc[r] = "download"
  /\ LET youtube_url == Str(strip(FormGet(request[r].youtubeUrl).chars))
     IN  /\ Record(r, "download", youtube_url)
         /\ \E outcome \in DownloadOutcomes(youtube_url) :
              LET downloaded == download_youtube_video(youtube_url, outcome)
              IN  IF downloaded.raised
                    THEN /\ Respond(r, 400, "error",
                                    Fmt("YouTube download failed: {}", downloaded.message))
                         /\ UNCHANGED <<media_source, uploads>>
                    ELSE /\ Goto(r, "start_media")
                         /\ media_source' = [media_source EXCEPT ![r] = downloaded.value]
                         /\ uploads' = uploads \cup {downloaded.value}
  /\ UNCHANGED <<processing_status, request, text_input, threads, workerVars, aside>>

\* process() starts the worker thread of the request and answers.
ProcessStartThread(r) ==
  /\ hpc[r] \in {"start_media", "start_text"}
  /\ threads' = [threads EXCEPT ![r] = @ + 1]
  /\ wpc' = [wpc EXCEPT ![r] =
               IF hpc[r] = "start_media" THEN "m_set_transcribing" ELSE "t_set_transcription"]
  /\ Respond(r, 200, "status", Lit("success"))
  /\ jobs_overlapped' = (jobs_overlapped \/ ~NoJobRunning)
  /\ UNCHANGED <<processing_status, request, media_source, text_input,
                 transcription_result, summary_result, translation_result, exc, calls,
                 uploads, caller, requests_overlapped>>

\* ------------------------------------------------------------ the worker threads
\* A worker that writes only while its request is the newest one.
WorkerSetIfNewest(r, at, key, value, next) ==
  /\ wpc[r] = at
  /\ \A q \in Requests : q > r => hpc[q] = "idle"
  /\ SetStatus(key, value)
  /\ wpc' = [wpc EXCEPT ![r] = next]
  /\ UNCHANGED <<handlerVars, transcription_result, summary_result, translation_result,
                 exc, calls, uploads, aside>>

\* One assignment to the status map by the worker of request r, which moves on.
WorkerSet(r, at, key, value, next) ==
  /\ wpc[r] = at
  /\ SetStatus(key, value)
  /\ wpc' = [wpc EXCEPT ![r] = next]
  /\ UNCHANGED <<handlerVars, transcription_result, summary_result, translation_result,
                 exc, calls, uploads, aside>>

\* The worker of request r catches an exception: it goes to its except block.
Catch(r, message, handler) ==
  /\ exc' = [exc EXCEPT ![r] = message]
  /\ wpc' = [wpc EXCEPT ![r] = handler]

InProgress(progress) == Stage(FALSE, None, Lit(progress), FALSE)
Completed(result, progress) == Stage(TRUE, result, progress, FALSE)
Failed(result) == Stage(TRUE, result, None, TRUE)

\* ---- process_media_input
MediaSetTranscribing(r) ==
  WorkerSet(r, "m_set_transcribing", "transcription",
            InProgress("Transcribing media..."), "m_transcribe")

MediaTranscribe(r) ==
  /\ wpc[r] = "m_transcribe"
  /\ Record(r, "transcribe", media_source[r])
  /\ \E outcome \in TranscriberOutcomes(media_source[r]) :
       LET returned == process_audio_transcription(media_source[r], outcome)
       IN  IF returned.raised
             THEN /\ Catch(r, returned.message, "m_err_transcription")
                  /\ UNCHANGED transcription_result
             ELSE /\ transcription_result' = [transcription_result EXCEPT ![r] = returned.value]
                  /\ wpc' = [wpc EXCEPT ![r] = "m_set_transcription"]
                  /\ UNCHANGED exc
  /\ UNCHANGED <<processing_status, handlerVars, summary_result, translation_result,
                 uploads, aside>>

MediaSetTranscription(r) ==
  WorkerSet(r, "m_set_transcription", "transcription",
            Completed(transcription_result[r].text, Lit("Done")), "m_set_summarizing")

MediaSetSummarizing(r) ==
  WorkerSet(r, "m_set_summarizing", "summary",
            InProgress("Creating summary..."), "m_summarize")

\* A worker that summarizes the path of the media instead of its transcription.
MediaSummarizePath(r) ==
  /\ wpc[r] = "m_summarize"
  /\ Record(r, "summarize", media_source[r])
  /\ \E outcome \in SummarizerOutcomes(media_source[r]) :
       LET returned == summarize_openrouter(media_source[r], outcome)
       IN  IF returned.raised
             THEN /\ Catch(r, returned.message, "m_err_transcription")
                  /\ UNCHANGED summary_result
             ELSE /\ summary_result' = [summary_result EXCEPT ![r] = returned.value]
                  /\ wpc' = [wpc EXCEPT ![r] = "m_set_summary"]
                  /\ UNCHANGED exc
  /\ UNCHANGED <<processing_status, handlerVars, transcription_result, translation_result,
                 uploads, aside>>

MediaSummarize(r) ==
  /\ wpc[r] = "m_summarize"
  /\ Record(r, "summarize", transcription_result[r].text)
  /\ \E outcome \in SummarizerOutcomes(transcription_result[r].text) :
       LET returned == summarize_openrouter(transcription_result[r].text, outcome)
       IN  IF returned.raised
             THEN /\ Catch(r, returned.message, "m_err_transcription")
                  /\ UNCHANGED summary_result
             ELSE /\ summary_result' = [summary_result EXCEPT ![r] = returned.value]
                  /\ wpc' = [wpc EXCEPT ![r] = "m_set_summary"]
                  /\ UNCHANGED exc
  /\ UNCHANGED <<processing_status, handlerVars, transcription_result, translation_result,
                 uploads, aside>>

MediaSetSummary(r) ==
  WorkerSet(r, "m_set_summary", "summary",
            Completed(summary_result[r], Lit("Done")), "m_set_translating")

\* A worker that marks the summary, not the translation, as in progress.
MediaSetTranslatingOnSummary(r) ==
  WorkerSet(r, "m_set_translating", "summary",
            InProgress("Creating translations..."), "m_translate")

MediaSetTranslating(r) ==
  WorkerSet(r, "m_set_translating", "translation",
            InProgress("Creating translations..."), "m_translate")

\* A worker whose translation step lets a failure of the remote calls go up.
MediaTranslateUnguarded(r) ==
  /\ wpc[r] = "m_translate"
  /\ Record(r, "translate", summary_result[r])
  /\ \E kannadaOutcome \in DeepseekOutcomes, kanglishOutcome \in DeepseekOutcomes :
       LET returned == create_translations_unguarded(summary_result[r], kannadaOutcome,
                                                     kanglishOutcome)
       IN  IF returned.raised
             THEN /\ Catch(r, returned.message, "m_err_transcription")
                  /\ UNCHANGED translation_result
             ELSE /\ translation_result' = [translation_result EXCEPT ![r] = returned.value]
                  /\ wpc' = [wpc EXCEPT ![r] = "m_set_translation"]
                  /\ UNCHANGED exc
  /\ UNCHANGED <<processing_status, handlerVars, transcription_result, summary_result,
                 uploads, aside>>

MediaTranslate(r) ==
  /\ wpc[r] = "m_translate"
  /\ Record(r, "translate", summary_result[r])
  /\ \E kannadaOutcome \in DeepseekOutcomes, kanglishOutcome \in DeepseekOutcomes :
       LET returned == create_translations(summary_result[r], kannadaOutcome, kanglishOutcome)
       IN  IF returned.raised
             THEN /\ Catch(r, returned.message, "m_err_transcription")
                  /\ UNCHANGED translation_result
             ELSE /\ translation_result' = [translation_result EXCEPT ![r] = returned.value]
                  /\ wpc' = [wpc EXCEPT ![r] = "m_set_translation"]
                  /\ UNCHANGED exc
  /\ UNCHANGED <<processing_status, handlerVars, transcription_result, summary_result,
                 uploads, aside>>

MediaSetTranslation(r) ==
  WorkerSet(r, "m_set_translation", "translation",
            Completed(translation_result[r], Lit("Done")), "m_set_final")

MediaSetFinal(r) ==
  WorkerSet(r, "m_set_final", "final",
            Final(TRUE, None, Str(basename(media_source[r].chars)),
                  transcription_result[r].duration, Lit("file")), "done")

\* An except block that flags the transcription and keeps what it holds.
MediaErrTranscriptionKeepsResult(r) ==
  WorkerSet(r, "m_err_transcription", "transcription",
            Stage(TRUE, processing_status.transcription.result, None, TRUE), "m_err_summary")

\* The except block of process_media_input.
MediaErrTranscription(r) ==
  WorkerSet(r, "m_err_transcription", "transcription",
            Failed(Fmt("ERROR: {}", exc[r])), "m_err_summary")

\* An except block that forgets the error flag of the summary.
MediaErrSummaryNoFlag(r) ==
  WorkerSet(r, "m_err_summary", "summary", Stage(TRUE, None, None, FALSE), "m_err_translation")

MediaErrSummary(r) ==
  WorkerSet(r, "m_err_summary", "summary", Failed(None), "m_err_translation")

\* An except block that flags the translation and leaves it incomplete.
MediaErrTranslationIncomplete(r) ==
  WorkerSet(r, "m_err_translation", "translation", Stage(FALSE, None, None, TRUE),
            "m_err_final")

MediaErrTranslation(r) ==
  WorkerSet(r, "m_err_translation", "translation", Failed(None), "m_err_final")

\* An except block that ends like the try block: success = True.
MediaErrFinalSuccess(r) ==
  WorkerSet(r, "m_err_final", "final",
            Final(TRUE, exc[r], Str(basename(media_source[r].chars)), Lit("--:--"),
                  Lit("file")), "done")

MediaErrFinal(r) ==
  WorkerSet(r, "m_err_final", "final",
            Final(FALSE, exc[r], Str(basename(media_source[r].chars)), Lit("--:--"),
                  Lit("file")), "done")

process_media_input(r) ==
  \/ MediaSetTranscribing(r)
  \/ MediaTranscribe(r)
  \/ MediaSetTranscription(r)
  \/ MediaSetSummarizing(r)
  \/ MediaSummarize(r)
  \/ MediaSetSummary(r)
  \/ MediaSetTranslating(r)
  \/ MediaTranslate(r)
  \/ MediaSetTranslation(r)
  \/ MediaSetFinal(r)
  \/ MediaErrTranscription(r)
  \/ MediaErrSummary(r)
  \/ MediaErrTranslation(r)
  \/ MediaErrFinal(r)

\* ---- process_text_input
TextSetTranscription(r) ==
  WorkerSet(r, "t_set_transcription", "transcription",
            Stage(TRUE, text_input[r], None, FALSE), "t_set_summarizing")

TextSetSummarizing(r) ==
  WorkerSet(r, "t_set_summarizing", "summary",
            InProgress("Creating summary..."), "t_summarize")

TextSummarize(r) ==
  /\ wpc[r] = "t_summarize"
  /\ Record(r, "summarize", text_input[r])
  /\ \E outcome \in SummarizerOutcomes(text_input[r]) :
       LET returned == summarize_openrouter(text_input[r], outcome)
       IN  IF returned.raised
             THEN /\ Catch(r, returned.message, "t_err_transcription")
                  /\ UNCHANGED summary_result
             ELSE /\ summary_result' = [summary_result EXCEPT ![r] = returned.value]
                  /\ wpc' = [wpc EXCEPT ![r] = "t_set_summary"]
                  /\ UNCHANGED exc
  /\ UNCHANGED <<processing_status, handlerVars, transcription_result, translation_result,
                 uploads, aside>>

TextSetSummary(r) ==
  WorkerSet(r, "t_set_summary", "summary",
            Completed(summary_result[r], Lit("Done")), "t_set_translating")

TextSetTranslating(r) ==
  WorkerSet(r, "t_set_translating", "translation",
            InProgress("Creating translations..."), "t_translate")

TextTranslate(r) ==
  /\ wpc[r] = "t_translate"
  /\ Record(r, "translate", summary_result[r])
  /\ \E kannadaOutcome \in DeepseekOutcomes, kanglishOutcome \in DeepseekOutcomes :
       LET returned == create_translations(summary_result[r], kannadaOutcome, kanglishOutcome)
       IN  IF returned.raised
             THEN /\ Catch(r, returned.message, "t_err_transcription")
                  /\ UNCHANGED translation_result
             ELSE /\ translation_result' = [translation_result EXCEPT ![r] = returned.value]
                  /\ wpc' = [wpc EXCEPT ![r] = "t_set_translation"]
                  /\ UNCHANGED exc
  /\ UNCHANGED <<processing_status, handlerVars, transcription_result, summary_result,
                 uploads, aside>>

TextSetTranslation(r) ==
  WorkerSet(r, "t_set_translation", "translation",
            Completed(translation_result[r], Lit("Done")), "t_set_final")

\* A text worker that ends like the media worker: input_type = 'file'.
TextSetFinalAsFile(r) ==
  WorkerSet(r, "t_set_final", "final",
            Final(TRUE, None, EmptyStr, Lit("--:--"), Lit("file")), "done")

TextSetFinal(r) ==
  WorkerSet(r, "t_set_final", "final",
            Final(TRUE, None, EmptyStr, Lit("--:--"), Lit("text")), "done")

\* The except block of process_text_input.
TextErrTranscription(r) ==
  WorkerSet(r, "t_err_transcription", "transcription",
            Failed(Fmt("ERROR: {}", exc[r])), "t_err_summary")

TextErrSummary(r) ==
  WorkerSet(r, "t_err_summary", "summary", Failed(None), "t_err_translation")

TextErrTranslation(r) ==
  WorkerSet(r, "t_err_translation", "translation", Failed(None), "t_err_final")

TextErrFinal(r) ==
  WorkerSet(r, "t_err_final", "final",
            Final(FALSE, exc[r], EmptyStr, Lit("--:--"), Lit("text")), "done")

process_text_input(r) ==
  \/ TextSetTranscription(r)
  \/ TextSetSummarizing(r)
  \/ TextSummarize(r)
  \/ TextSetSummary(r)
  \/ TextSetTranslating(r)
  \/ TextTranslate(r)
  \/ TextSetTranslation(r)
  \/ TextSetFinal(r)
  \/ TextErrTranscription(r)
  \/ TextErrSummary(r)
  \/ TextErrTranslation(r)
  \/ TextErrFinal(r)

\* ------------------------------------------------------------ the requests sent
ValidUrl == YoutubePrefix \o <<"d", "Q", "w", "4", "w", "9", "W", "g", "X", "c", "Q">>

\* One request of every kind /process tells apart.
Forms ==
  { Form(Lit("file"), None, None, None),
    Form(Lit("file"), Str(<<"a", ".", "m", "p", "4">>), None, None),
    Form(Lit("file"), Str(<<"b", ".", "e", "x", "e">>), None, None),
    Form(Lit("youtube"), None, None, None),
    Form(Lit("youtube"), None, Str(<<" ">> \o ValidUrl \o <<"\n">>), None),
    Form(Lit("youtube"), None, Str(<<"h", "t", "t", "p", ":", "/", "/", "x">>), None),
    Form(Lit("text"), None, None, Str(<<" ", " ">>)),
    Form(Lit("text"), None, None, Str(<<" ", "t", "o", "o", " ", "s", "h", "o", "r", "t", " ">>)),
    Form(Lit("text"), None, None, Str(<<" ", "l", "o", "n", "g", " ", "e", "n", "o", "u", "g", "h", " ">>)),
    Form(Lit("audio"), None, None, None) }

\* ------------------------------------------------------------ next-state relations
Step(r) ==
  \/ ResetSummary(r)
  \/ ResetTranslation(r)
  \/ ResetFinal(r)
  \/ ProcessRoute(r)
  \/ ProcessSave(r)
  \/ ProcessDownload(r)
  \/ process_media_input(r)
  \/ process_text_input(r)

\* Requests arrive at any time; handlers and workers interleave freely.
Next ==
  \/ \E r \in Requests, form \in Forms : ProcessBegin(r, form)
  \/ \E r \in Requests : ProcessStartThread(r)
  \/ \E r \in Requests : Step(r)

Spec == Init /\ [][Next]_vars

\* A request arrives only when nothing of an earlier request is still running.
NextSerial ==
  \/ \E r \in Requests, form \in Forms : Quiescent /\ ProcessBegin(r, form)
  \/ \E r \in Requests : ProcessStartThread(r)
  \/ \E r \in Requests : Step(r)

SpecSerial == Init /\ [][NextSerial]_vars

\* The requests of the runs checked for termination: a file that is rejected, a
\* file that is accepted, and a text that is accepted.
LiveForms ==
  { Form(Lit("file"), Str(<<"b", ".", "e", "x", "e">>), None, None),
    Form(Lit("file"), Str(<<"a", ".", "m", "p", "4">>), None, None),
    Form(Lit("text"), None, None, Str(<<"l", "o", "n", "g", " ", "e", "n", "o", "u", "g", "h">>)) }

StepLive(r) ==
  \/ ResetSummary(r)
  \/ ResetTranslation(r)
  \/ ResetFinal(r)
  \/ ProcessRoute(r)
  \/ ProcessSave(r)
  \/ ProcessStartThread(r)
  \/ process_media_input(r)
  \/ process_text_input(r)

NextLive ==
  \/ \E r \in Requests, form \in LiveForms : ProcessBegin(r, form)
  \/ \E r \in Requests : StepLive(r)

\* Every thread that can take a step eventually takes one: the handlers and the
\* workers are scheduled, and every external call returns or raises.  Nothing
\* makes a client send a request.
Fairness == \A r \in Requests : WF_vars(StepLive(r))

SpecLive == Init /\ [][NextLive]_vars /\ Fairness

\* ------------------------------------------------------------ YouTube requests
\* URLs around the pattern: white space around them, a changed literal part, ids
\* that are too short, too long or hold a character outside [\w-], and text after
\* the id.
VideoId == <<"d", "Q", "w", "4", "w", "9", "W", "g", "X", "c", "Q">>

UrlLeads == { <<>>, <<" ">> }
UrlTrails == { <<>>, <<" ">>, <<"\n">>, <<"\n", "x">>, <<"&", "t", "=", "1">> }
UrlPrefixes ==
  { YoutubePrefix,
    SubSeq(YoutubePrefix, 1, 4) \o Drop(YoutubePrefix, 5),
    [YoutubePrefix EXCEPT ![12] = "x"],
    SubSeq(YoutubePrefix, 1, 29) \o Drop(YoutubePrefix, 30),
    SubSeq(YoutubePrefix, 1, 8) \o Drop(YoutubePrefix, 12) }
UrlIds ==
  { VideoId, <<>>, Take(VideoId, Len(VideoId) - 1), VideoId \o <<"0">> }
  \cup { [VideoId EXCEPT ![at] = c] :
           at \in {1, 6, Len(VideoId)}, c \in {"_", "-", "!", " ", "/", ".", "\n"} }

UrlForms ==
  { Form(Lit("youtube"), None, Str(lead \o prefix \o id \o trail), None) :
      lead \in UrlLeads, prefix \in UrlPrefixes, id \in UrlIds, trail \in UrlTrails }
  \cup { Form(Lit("youtube"), None, None, None),
         Form(Lit("youtube"), None, Str(<<" ", "\n">>), None) }

\* One YouTube request, from its arrival to the end of its job.
NextUrl ==
  \/ \E form \in UrlForms : ProcessBegin(1, form)
  \/ ResetSummary(1)
  \/ ResetTranslation(1)
  \/ ResetFinal(1)
  \/ ProcessRoute(1)
  \/ ProcessDownload(1)
  \/ ProcessStartThread(1)
  \/ process_media_input(1)

SpecUrl == Init /\ [][NextUrl]_vars

\* ------------------------------------------------------------ file requests
\* File names around the rule: no name, no dot, several dots, extensions in upper
\* case, extensions that are a part of a supported one or hold one.
FileStems == { <<>>, <<"a">>, <<"a", ".", "b">>, <<"m", "p", "4">>, <<"c", ".", "m", "p", "4">> }
FileEnds ==
  { <<>>, <<".">>, <<".", "m", "p", "4">>, <<".", "M", "P", "4">>, <<".", "M", "p", "3">>,
    <<".", "t", "s">>, <<".", "O", "P", "U", "S">>, <<".", "e", "x", "e">>,
    <<".", "m", "p">>, <<".", "m", "p", "4", "4">>, <<".", "m", "p", "4", " ">>,
    <<".", "m", "p", "4", ".">>, <<".", "m", "p", "4", ".", "e", "x", "e">>,
    <<".", "p", "y", ".", "W", "A", "V">>, <<" ", "m", "p", "4">> }

FileForms ==
  { Form(Lit("file"), Str(stem \o end), None, None) : stem \in FileStems, end \in FileEnds }
  \cup { Form(Lit("file"), None, None, None) }

\* One file request, from its arrival to the end of its job.
NextFile ==
  \/ \E form \in FileForms : ProcessBegin(1, form)
  \/ ResetSummary(1)
  \/ ResetTranslation(1)
  \/ ResetFinal(1)
  \/ ProcessRoute(1)
  \/ ProcessSave(1)
  \/ ProcessStartThread(1)
  \/ process_media_input(1)

SpecFile == Init /\ [][NextFile]_vars

\* ------------------------------------------------------------ create_translations alone
\* Texts create_translations can be given: nothing, not a str, blank, short, and
\* longer than what the fallback texts quote.
TranslateTexts ==
  { None, Int(0), Int(5), EmptyStr, Str(<<" ", "\n">>),
    Str(<<"h", "i">>), Str(<<" ", "a", " ", "s", "u", "m", "m", "a", "r", "y", " ">>),
    Str([i \in 1..(FallbackQuoteLen + 1) |-> "x"]) }

\* What a remote call can do: an answer with or without the label, an empty
\* answer, an answer without content, and the three failures.
TranslateOutcomes ==
  { Answer(Str(<<"K", "a", "n", "n", "a", "d", "a", ":", " ", "k", "n", " ">>)),
    Answer(Str(<<"k", "a", "n", "g", "l", "i", "s", "h", ":", "k", "g">>)),
    Answer(Str(<<" ", "p", "l", "a", "i", "n", " ">>)),
    Answer(EmptyStr), Answer(None), Timeout, HttpError, Malformed }

Calling(text, kannadaOutcome, kanglishOutcome) ==
  [text |-> text, kannada |-> kannadaOutcome, kanglish |-> kanglishOutcome,
   result |-> None, state |-> "calling"]

\* create_translations(text) is called and returns or raises.
CallCreateTranslations ==
  /\ caller.state = "calling"
  /\ LET returned == create_translations(caller.text, caller.kannada, caller.kanglish)
     IN  caller' = [caller EXCEPT !.state = IF returned.raised THEN "raised" ELSE "returned",
                                  !.result = returned]
  /\ UNCHANGED <<processing_status, handlerVars, workerVars, calls, uploads,
                 requests_overlapped, jobs_overlapped>>

InitTranslate ==
  /\ InitProgram
  /\ requests_overlapped = FALSE
  /\ jobs_overlapped = FALSE
  /\ \E text \in TranslateTexts, kannadaOutcome, kanglishOutcome \in TranslateOutcomes :
       caller = Calling(text, kannadaOutcome, kanglishOutcome)

NextTranslate == CallCreateTranslations

SpecTranslate == InitTranslate /\ [][NextTranslate]_vars

\* ------------------------------------------------------------ GET /status/<step>
\* dict.get(key, default)
DictGet(d, key, default) == IF key \in DOMAIN d THEN d[key] ELSE default

\* jsonify on a Python bool: true or false.
Bool(b) == [kind |-> "bool", value |-> b]

\* What get_status(step) answers for an entry of the map.  The flags of an entry
\* are bools; 'error' is a bool in a stage entry and None or a message in final,
\* which has neither 'complete' nor 'result' nor 'progress'.
StatusJson(s) ==
  [key |-> "", code |-> 200,
   body |-> [error |-> IF "complete" \in DOMAIN s THEN Bool(DictGet(s, "error", FALSE))
                       ELSE DictGet(s, "error", Bool(FALSE)),
             complete |-> Bool(DictGet(s, "complete", FALSE)),
             result |-> DictGet(s, "result", None),
             progress |-> DictGet(s, "progress", None)]]

Polled(step, answer) == [response |-> answer, state |-> "answered", step |-> step]

\* get_status that answers for a step it does not know as for an empty entry.
get_status_lenient(step) ==
  /\ caller' = Polled(step, StatusJson(IF step \in DOMAIN processing_status
                                        THEN processing_status[step] ELSE [none |-> None]))
  /\ UNCHANGED <<processing_status, handlerVars, workerVars, calls, uploads,
                 requests_overlapped, jobs_overlapped>>

\* get_status(step): the handler of GET /status/<step>.  It reads the entry once.
get_status(step) ==
  /\ caller' = Polled(step, IF step \notin DOMAIN processing_status
                              THEN Json(400, "error", Lit("Invalid step"))
                              ELSE StatusJson(processing_status[step]))
  /\ UNCHANGED <<processing_status, handlerVars, workerVars, calls, uploads,
                 requests_overlapped, jobs_overlapped>>

\* The step names the clients poll: the four entries, and names that are none.
PollSteps ==
  { "transcription", "summary", "translation", "final",
    "Final", "transcription ", "status", "complete" }

\* Requests one at a time, polled at any moment.
NextStatus ==
  \/ \E r \in Requests, form \in Forms : Quiescent /\ ProcessBegin(r, form)
  \/ \E r \in Requests : ProcessStartThread(r)
  \/ \E r \in Requests : Step(r)
  \/ \E step \in PollSteps : get_status(step)

SpecStatus == Init /\ [][NextStatus]_vars

\* ------------------------------------------------------------ sanitize_filename alone
\* The characters of the names sanitize_filename is given.
NameChars == {"a", "-", "_", ".", " ", "/", "\\", "?"}
\* Longest of the names made of all combinations of these characters.
MaxNameLen == 4

\* A name longer than what sanitize_filename leaves alone.
LongStem == [i \in 1..(SanitizeMaxLen + 1) |-> IF i % 7 = 0 THEN " " ELSE "a"]

Names ==
  UNION { [1..n -> NameChars] : n \in 0..MaxNameLen }
  \cup { LongStem, LongStem \o <<".", "m", "p", "4">>, <<".">> \o LongStem,
         <<"a", "/">> \o LongStem \o <<".", "w", "a", "v">>,
         <<"<", "a", ">", ":", "\"", "|", "*", "\t", "\n", "b", "!", "@", "(", ")">> }

Sanitizing(name) == [name |-> name, result |-> <<>>, state |-> "calling"]

\* sanitize_filename(name) is called and returns.
CallSanitizeFilename ==
  /\ caller.state = "calling"
  /\ caller' = [caller EXCEPT !.state = "returned", !.result = sanitize_filename(caller.name)]
  /\ UNCHANGED <<processing_status, handlerVars, workerVars, calls, uploads,
                 requests_overlapped, jobs_overlapped>>

\* Uploads whose names are accepted and try to leave the upload folder, hold
\* characters the file system gives a meaning, or are too long.
UploadNames ==
  { <<".", ".", "/", "a", ".", "m", "p", "4">>,
    <<"/", "e", "t", "c", "/", "p", ".", "w", "a", "v">>,
    <<".", ".", "\\", "x", ".", "M", "P", "3">>,
    <<"a", "/", ".", ".", "/", "b", ".", "o", "g", "g">>,
    <<"a", " ", "b", "\t", "c", ".", "m", "p", "4">>,
    <<"x", "_", " ", "_", "y", ".", "t", "s">>,
    <<"?", ".", "m", "p", "4">>,
    <<".", "m", "p", "4">>,
    <<"<", "s", ">", ":", "\"", "|", "*", ".", "m", "k", "v">>,
    LongStem \o <<".", "m", "p", "4">>,
    <<"a", "/">> \o LongStem \o <<".", "w", "a", "v">> }

UploadForms == { Form(Lit("file"), Str(name), None, None) : name \in UploadNames }

InitSanitize ==
  /\ InitProgram
  /\ requests_overlapped = FALSE
  /\ jobs_overlapped = FALSE
  /\ caller \in {NotCalling} \cup {Sanitizing(name) : name \in Names}

\* Either sanitize_filename is called on a name, or a file is uploaded under one.
NextSanitize ==
  \/ CallSanitizeFilename
  \/ \E form \in UploadForms : caller = NotCalling /\ ProcessBegin(1, form)
  \/ ResetSummary(1)
  \/ ResetTranslation(1)
  \/ ResetFinal(1)
  \/ ProcessRoute(1)
  \/ ProcessSave(1)
  \/ ProcessStartThread(1)
  \/ process_media_input(1)

SpecSanitize == InitSanitize /\ [][NextSanitize]_vars

\* ------------------------------------------------------------ the claims
Stages == {"transcription", "summary", "translation"}

\* Request r is the last one that arrived.
Latest(r) == hpc[r] # "idle" /\ \A q \in Requests : q > r => hpc[q] = "idle"
\* The handler of request r is inside reset_status().
Resetting(r) == hpc[r] \in {"reset_summary", "reset_translation", "reset_final"}
\* The handler of request r is past reset_status().
ResetDone(r) == hpc[r] \notin {"idle", "reset_summary", "reset_translation", "reset_final"}

\* C1: every POST /process first sets all four entries of the status map back to
\* their initial values, before it validates anything: while it resets it has
\* validated nothing, and once it is past the reset, accepted or rejected, the map
\* holds the initial values until its own worker writes (requests one at a time).
C1_ResetBeforeValidation ==
  \A r \in Requests :
    /\ Resetting(r) =>
         /\ response[r] = NoResponse
         /\ calls[r] = <<>>
         /\ text_input[r] = None /\ media_source[r] = None
         /\ threads[r] = 0
    /\ (Latest(r) /\ ResetDone(r) /\ wpc[r] = "idle") => processing_status = InitialStatus

\* A job has succeeded, the next request was rejected, and the map is reset.
C1_Witness ==
  \E q, r \in Requests :
    /\ q < r /\ Latest(r)
    /\ wpc[q] = "done" /\ exc[q] = None
    /\ hpc[r] = "done" /\ response[r].code = 400
    /\ processing_status = InitialStatus

\* The order of the stages as the status map shows it.
StageOrder ==
  /\ processing_status.final.success =>
       \A k \in Stages :
         /\ processing_status[k].complete
         /\ ~processing_status[k].error
         /\ processing_status[k].result # None
  /\ (processing_status.summary.complete /\ ~processing_status.summary.error) =>
       processing_status.transcription.complete
  /\ (processing_status.translation.complete /\ ~processing_status.translation.error) =>
       processing_status.summary.complete

\* C2, as stated: provided no two background jobs overlap in time, the status map
\* shows the stages in order in every reachable state.
C2_Original == ~jobs_overlapped => StageOrder

\* C2, amended: provided no request arrives while an earlier request is still being
\* handled or its job is still running, the status map shows the stages in order in
\* every reachable state in which no handler is inside reset_status().
C2_StageOrder ==
  (~requests_overlapped /\ \A r \in Requests : ~Resetting(r)) => StageOrder

\* Two jobs have run one after the other and the second has succeeded.
C2_Witness ==
  /\ ~requests_overlapped
  /\ \A r \in Requests : ~Resetting(r)
  /\ processing_status.final.success
  /\ \E q, r \in Requests : q < r /\ wpc[q] = "done" /\ wpc[r] = "done" /\ Latest(r)

\* The worker of request r has been started and has not finished.
WorkerRunning(r) == wpc[r] \notin {"idle", "done"}

\* The text the job of request r works on, None as long as it has none.
TextOf(r) ==
  IF text_input[r] # None THEN text_input[r]
  ELSE IF transcription_result[r] # None THEN transcription_result[r].text
  ELSE None

\* C3: a request that is accepted while an earlier worker is still running neither
\* cancels nor isolates that worker: every running worker, whatever has arrived
\* since it started, can take its next step on the shared status map.
C3_EarlierWorkerKeepsWriting ==
  \A q \in Requests :
    WorkerRunning(q) => ENABLED (process_media_input(q) \/ process_text_input(q))

\* The map holds the transcription of the newer request next to the summary and
\* the success flag of the older one, while the newer job is still running.
C3_Witness ==
  \E q, r \in Requests :
    /\ q < r
    /\ threads[q] = 1 /\ threads[r] = 1
    /\ WorkerRunning(r)
    /\ TextOf(q) # TextOf(r)
    /\ summary_result[q] # None /\ summary_result[r] = None
    /\ processing_status.transcription.result = TextOf(r)
    /\ processing_status.summary.result = summary_result[q]
    /\ processing_status.final.success

\* How a failed job of request r leaves the status map.
ErrorEnd(r) ==
  /\ \A k \in Stages : processing_status[k].complete /\ processing_status[k].error
  /\ ~processing_status.final.success
  /\ processing_status.final.error = exc[r]

\* A stage call of the worker of request r raises in this step.
Raises(r) == exc[r] = None /\ exc'[r] # None
\* The worker of request r, which caught an exception, ends in this step.
FailedJobEnds(r) == wpc[r] # "done" /\ wpc'[r] = "done" /\ exc[r] # None

\* C4, as stated: when a stage call raises, the worker catches it and the job ends
\* with all three stages complete with error, no success and the message as error.
C4_Original ==
  [][\A r \in Requests :
       /\ Raises(r) => wpc'[r] \in {"m_err_transcription", "t_err_transcription"}
       /\ FailedJobEnds(r) => ErrorEnd(r)']_vars

\* C4, amended: the same, provided no request arrived while an earlier request was
\* still being handled or its job was still running.
C4_ErrorEnd ==
  [][\A r \in Requests :
       /\ Raises(r) => wpc'[r] \in {"m_err_transcription", "t_err_transcription"}
       /\ (FailedJobEnds(r) /\ ~requests_overlapped') => ErrorEnd(r)']_vars

\* A job has failed and ended, undisturbed, in the error state.
C4_Witness ==
  \E r \in Requests :
    /\ ~requests_overlapped
    /\ wpc[r] = "done" /\ exc[r] # None
    /\ Latest(r)
    /\ ErrorEnd(r)

\* The name has a '.', and what follows its last '.', lower-cased, is supported.
HasSupportedExtension(name) ==
  /\ name # <<>>
  /\ \E k \in 1..Len(name) :
       /\ name[k] = "."
       /\ \A j \in (k + 1)..Len(name) : name[j] # "."
       /\ lower(SubSeq(name, k + 1, Len(name))) \in SUPPORTED_EXTENSIONS

\* The URL is 'https://www.youtube.com/watch?v=' and exactly 11 word characters or
\* hyphens, and nothing else.
IsWatchUrl(u) ==
  /\ Len(u) = Len(YoutubePrefix) + 11
  /\ SubSeq(u, 1, Len(YoutubePrefix)) = YoutubePrefix
  /\ \A i \in (Len(YoutubePrefix) + 1)..Len(u) : IsWordChar(u[i]) \/ u[i] = "-"

\* The characters of a form field, none when the field was not sent.
FieldChars(v) == IF v = None THEN <<>> ELSE v.chars

\* The reasons for which /process rejects a form before it stores or downloads.
Rejected(form) ==
  CASE form.inputType = Lit("file") ->
         \/ FieldChars(form.file) = <<>>
         \/ ~HasSupportedExtension(form.file.chars)
    [] form.inputType = Lit("youtube") ->
         \/ strip(FieldChars(form.youtubeUrl)) = <<>>
         \/ ~IsWatchUrl(strip(FieldChars(form.youtubeUrl)))
    [] form.inputType = Lit("text") ->
         \/ strip(FieldChars(form.textInput)) = <<>>
         \/ Len(strip(FieldChars(form.textInput))) < 10
    [] OTHER -> TRUE

IsServiceCall(c) == c.op \in {"transcribe", "summarize", "translate"}
\* The calls of the three services made for request r, in order.
ServiceCalls(r) == SelectSeq(calls[r], IsServiceCall)

MediaJob(r) == threads[r] = 1 /\ media_source[r] # None
\* Request r started a text job.
TextJob(r) == threads[r] = 1 /\ text_input[r] # None

\* C6: a media job calls transcribe, summarize and translate in this order,
\* summarize on exactly the transcription text and translate on exactly the
\* summary, each only after the call before it returned without error; and (with
\* requests one at a time) a stage is shown in progress only when the stage before
\* it is shown complete with its result.
C6_MediaOrder ==
  \A r \in Requests :
    MediaJob(r) =>
      LET sc == ServiceCalls(r)
      IN  /\ Len(sc) <= 3
          /\ Len(sc) >= 1 => sc[1] = Call("transcribe", media_source[r])
          /\ Len(sc) >= 2 =>
               /\ transcription_result[r] # None
               /\ sc[2] = Call("summarize", transcription_result[r].text)
          /\ Len(sc) >= 3 =>
               /\ summary_result[r] # None
               /\ sc[3] = Call("translate", summary_result[r])
          /\ (Latest(r) /\ exc[r] = None) =>
               /\ Len(sc) >= 2 =>
                    processing_status.transcription
                      = Completed(transcription_result[r].text, Lit("Done"))
               /\ Len(sc) >= 3 =>
                    processing_status.summary = Completed(summary_result[r], Lit("Done"))
               /\ processing_status.summary # InitialStage =>
                    processing_status.transcription
                      = Completed(transcription_result[r].text, Lit("Done"))
               /\ processing_status.translation # InitialStage =>
                    processing_status.summary = Completed(summary_result[r], Lit("Done"))

\* A media job has made its three calls and succeeded.
C6_Witness ==
  \E r \in Requests :
    /\ MediaJob(r) /\ Latest(r)
    /\ Len(ServiceCalls(r)) = 3
    /\ wpc[r] = "done" /\ exc[r] = None
    /\ processing_status.final.success

\* C9: a text job never calls the transcription service: it shows the stripped
\* text as the transcription, summarizes that text, translates the summary, and on
\* success ends with input_type 'text' and an empty filename.
C9_TextJob ==
  \A r \in Requests :
    TextJob(r) =>
      LET sc == ServiceCalls(r)
      IN  /\ \A i \in 1..Len(calls[r]) : calls[r][i].op \in {"summarize", "translate"}
          /\ text_input[r] = Str(strip(FieldChars(request[r].textInput)))
          /\ Len(sc) <= 2
          /\ Len(sc) >= 1 => sc[1] = Call("summarize", text_input[r])
          /\ Len(sc) >= 2 =>
               /\ summary_result[r] # None
               /\ sc[2] = Call("translate", summary_result[r])
          /\ (Latest(r) /\ exc[r] = None) =>
               /\ wpc[r] # "t_set_transcription" =>
                    processing_status.transcription = Stage(TRUE, text_input[r], None, FALSE)
               /\ Len(sc) >= 2 =>
                    processing_status.summary = Completed(summary_result[r], Lit("Done"))
               /\ wpc[r] = "done" =>
                    /\ processing_status.translation
                         = Completed(translation_result[r], Lit("Done"))
                    /\ processing_status.final
                         = Final(TRUE, None, EmptyStr, Lit("--:--"), Lit("text"))

\* A text job has succeeded.
C9_Witness ==
  \E r \in Requests :
    /\ TextJob(r) /\ Latest(r)
    /\ wpc[r] = "done" /\ exc[r] = None
    /\ Len(ServiceCalls(r)) = 2
    /\ processing_status.final.input_type = Lit("text")

\* The remote call did not give an answer.
RemoteFailed(outcome) == outcome.kind \in {"timeout", "http_error", "malformed"}

\* C7: create_translations never raises: whatever the text and whatever the two
\* remote calls do, it returns a dictionary with the keys 'kannada' and
\* 'kanglish', and the fallback texts when a remote call it made has failed.
C7_TranslationsNeverRaise ==
  /\ caller.state # "raised"
  /\ caller.state = "returned" =>
       LET returned == caller.result
           called == Truthy(caller.text) /\ IsStr(caller.text)
                     /\ strip(caller.text.chars) # <<>>
       IN  /\ ~returned.raised
           /\ returned.value.kind = "dict"
           /\ {"kannada", "kanglish"} \subseteq DOMAIN returned.value
           /\ returned.value.kannada.kind \in {"str", "lit", "fstr"}
           /\ returned.value.kanglish.kind \in {"str", "lit", "fstr"}
           /\ (called /\ (RemoteFailed(caller.kannada) \/ RemoteFailed(caller.kanglish))) =>
                /\ returned.value = get_fallback_translations(caller.text)
                /\ returned.value.kannada.kind = "fstr"
                /\ returned.value.kanglish.arg = Str(Take(caller.text.chars, 100))

\* create_translations has returned after its first remote call went through and
\* its second one timed out, on a text longer than what the fallback quotes.
C7_Witness ==
  /\ caller.state = "returned"
  /\ IsStr(caller.text) /\ Len(caller.text.chars) > 100
  /\ caller.kannada.kind = "ok" /\ caller.kanglish = Timeout
  /\ caller.result.value.kanglish.kind = "fstr"

\* The URL of a YouTube request, stripped.
StrippedUrl(r) == strip(FieldChars(request[r].youtubeUrl))

\* C8: a YouTube request reaches the download only if its stripped URL is the
\* literal 'https://www.youtube.com/watch?v=' and exactly 11 characters of [\w-];
\* for every other URL validate_youtube_url is None, the answer is 400 and nothing
\* is downloaded.
C8_OnlyWatchUrlsDownload ==
  \A r \in Requests :
    (request[r] # None /\ request[r].inputType = Lit("youtube")) =>
      LET url == FormGet(request[r].youtubeUrl)
          downloads == {i \in 1..Len(calls[r]) : calls[r][i].op = "download"}
      IN  /\ downloads # {} => IsWatchUrl(StrippedUrl(r))
          /\ hpc[r] \in {"download", "start_media"} => IsWatchUrl(StrippedUrl(r))
          /\ IsWatchUrl(StrippedUrl(r)) =>
               /\ validate_youtube_url(url) = url
               /\ validate_youtube_url(Str(StrippedUrl(r))) = Str(StrippedUrl(r))
          /\ ~IsWatchUrl(StrippedUrl(r)) =>
               /\ validate_youtube_url(url) = None
               /\ validate_youtube_url(Str(StrippedUrl(r))) = None
               /\ calls[r] = <<>> /\ threads[r] = 0 /\ uploads = {}
               /\ hpc[r] = "done" => response[r].code = 400 /\ response[r].key = "error"

\* A URL sent with white space around it has been given to the downloader.
C8_Witness ==
  \E r \in Requests :
    /\ request[r] # None /\ request[r].inputType = Lit("youtube")
    /\ FieldChars(request[r].youtubeUrl) # StrippedUrl(r)
    /\ Len(calls[r]) >= 1
    /\ calls[r][1] = Call("download", Str(StrippedUrl(r)))

\* C10: validate_file_format accepts a name exactly when it is not empty, has a
\* '.', and what follows its last '.', lower-cased, is a supported extension; a
\* file request whose name is not accepted is answered 400 and nothing is stored.
C10_FileFormat ==
  \A r \in Requests :
    (request[r] # None /\ request[r].inputType = Lit("file")) =>
      LET name == FieldChars(request[r].file)
      IN  /\ validate_file_format(request[r].file)[1] <=> HasSupportedExtension(name)
          /\ validate_file_format(Str(name))[1] <=> HasSupportedExtension(name)
          /\ ~HasSupportedExtension(name) =>
               /\ hpc[r] \notin {"save", "start_media"}
               /\ calls[r] = <<>> /\ uploads = {} /\ threads[r] = 0
               /\ hpc[r] = "done" => response[r].code = 400 /\ response[r].key = "error"
          /\ (HasSupportedExtension(name) /\ hpc[r] = "done") => Len(calls[r]) >= 1

\* A name with two dots and an extension in upper case has been accepted and stored.
C10_Witness ==
  \E r \in Requests :
    /\ request[r] # None /\ request[r].inputType = Lit("file")
    /\ LET name == FieldChars(request[r].file)
       IN  /\ Cardinality({i \in 1..Len(name) : name[i] = "."}) >= 2
           /\ lower(name) # name
    /\ Len(calls[r]) >= 1 /\ calls[r][1].op = "save"
    /\ uploads # {}

\* What the stages of the job of request r have produced so far.
OwnResults(r) == {TextOf(r), summary_result[r], translation_result[r]} \ {None}

\* The worker of request r leaves the step at.
Leaves(r, at) == wpc[r] \in at /\ wpc'[r] # wpc[r]

\* C11: when a stage fails after an earlier one succeeded, the except block
\* overwrites the transcription entry with 'ERROR: <message>' and error = True and
\* sets the results of summary and translation to None; when the failed job ends,
\* no entry of the map holds a result this job produced.
C11_NoPartialResult ==
  [][\A r \in Requests :
       /\ Leaves(r, {"m_err_transcription", "t_err_transcription"}) =>
            processing_status'.transcription = Stage(TRUE, Fmt("ERROR: {}", exc[r]), None, TRUE)
       /\ Leaves(r, {"m_err_summary", "t_err_summary"}) =>
            processing_status'.summary.result = None /\ processing_status'.summary.error
       /\ Leaves(r, {"m_err_translation", "t_err_translation"}) =>
            processing_status'.translation.result = None /\ processing_status'.translation.error
       /\ FailedJobEnds(r) =>
            \A k \in Stages :
              processing_status'[k].result \in OwnResults(r) =>
                \E q \in Requests \ {r} : processing_status'[k].result \in OwnResults(q)
       /\ (FailedJobEnds(r) /\ ~requests_overlapped') =>
            /\ processing_status'.transcription.result = Fmt("ERROR: {}", exc[r])
            /\ processing_status'.summary.result = None
            /\ processing_status'.translation.result = None]_vars

\* A media job whose transcription succeeded and whose summary failed has ended:
\* the map holds the error message where the transcription was.
C11_Witness ==
  \E r \in Requests :
    /\ MediaJob(r) /\ Latest(r)
    /\ wpc[r] = "done" /\ exc[r] # None
    /\ transcription_result[r] # None /\ summary_result[r] = None
    /\ processing_status.transcription.result = Fmt("ERROR: {}", exc[r])
    /\ processing_status.summary.result = None
    /\ processing_status.translation.result = None

\* create_translations(text) gets as far as its remote calls.
ReachesRemote(text) == Truthy(text) /\ IsStr(text) /\ strip(text.chars) # <<>>

\* C12: the translations are all or nothing: when the Kannada call fails the
\* Kanglish call is not made, when either call fails both values are the fallback
\* texts, and the dictionary never holds a translation next to a fallback text.
C12_AllOrNothing ==
  (caller.state = "returned" /\ ReachesRemote(caller.text)) =>
    LET value == caller.result.value
        posts == caller.result.posts
        fallback(v) == v.kind = "fstr" /\ v.arg = Str(Take(caller.text.chars, 100))
    IN  /\ posts[1] = "kannada"
        /\ RemoteFailed(caller.kannada) => posts = <<"kannada">>
        /\ ~RemoteFailed(caller.kannada) /\ IsStr(caller.kannada.content) =>
             posts = <<"kannada", "kanglish">>
        /\ (RemoteFailed(caller.kannada) \/ RemoteFailed(caller.kanglish)) =>
             fallback(value.kannada) /\ fallback(value.kanglish)
        /\ fallback(value.kannada) <=> fallback(value.kanglish)
        /\ IsStr(value.kannada) <=> IsStr(value.kanglish)
        /\ IsStr(value.kannada) \/ fallback(value.kannada)

\* The Kannada call has timed out: the Kanglish call, which would have answered,
\* was not made, and both values are fallback texts.
C12_Witness ==
  /\ caller.state = "returned" /\ ReachesRemote(caller.text)
  /\ caller.kannada = Timeout
  /\ caller.kanglish.kind = "ok" /\ IsStr(caller.kanglish.content)
  /\ caller.result.posts = <<"kannada">>
  /\ caller.result.value.kannada.kind = "fstr"
  /\ caller.result.value.kanglish.kind = "fstr"

\* The summary call of the job of request r has returned.
SummaryReturned(r) == threads[r] = 1 /\ summary_result[r] # None

\* C13: a failure of the translation service does not fail a job: once the summary
\* call of a job has returned, the job raises no more, and, with requests one at
\* a time, it ends with translation complete without error and final.success.
C13_TranslationCannotFail ==
  \A r \in Requests :
    SummaryReturned(r) =>
      /\ exc[r] = None
      /\ wpc[r] \in {"m_set_summary", "m_set_translating", "m_translate", "m_set_translation",
                     "m_set_final", "t_set_summary", "t_set_translating", "t_translate",
                     "t_set_translation", "t_set_final", "done"}
      /\ (wpc[r] = "done" /\ Latest(r)) =>
           /\ processing_status.summary = Completed(summary_result[r], Lit("Done"))
           /\ processing_status.translation.complete
           /\ ~processing_status.translation.error
           /\ processing_status.translation.result = translation_result[r]
           /\ processing_status.final.success
           /\ processing_status.final.error = None

\* A job whose translation calls failed has ended in success, with the fallback
\* texts as its translation.
C13_Witness ==
  \E r \in Requests :
    /\ SummaryReturned(r) /\ Latest(r) /\ wpc[r] = "done"
    /\ translation_result[r] # None
    /\ translation_result[r].kannada.kind = "fstr"
    /\ processing_status.translation.result = translation_result[r]
    /\ processing_status.final.success

\* The job of request r has ended and the map shows a finished job.
Terminal(r) ==
  /\ wpc[r] = "done"
  /\ \A k \in Stages : processing_status[k].complete
  /\ processing_status.final.success \/ processing_status.final.error # None

\* The worker of request r has just been started.
JobStarted(r) == wpc[r] \in {"m_set_transcribing", "t_set_transcription"}

\* A request has arrived after request r.
FurtherRequest(r) == \E q \in Requests : q > r /\ hpc[q] # "idle"

ResetStep ==
  \E r \in Requests :
    /\ hpc[r] \in {"idle", "reset_summary", "reset_translation", "reset_final"}
    /\ hpc'[r] # hpc[r]

\* No flag that was True is False after this step.
FlagsKept ==
  /\ \A k \in Stages : processing_status[k].complete => processing_status'[k].complete
  /\ processing_status.final.success => processing_status'.final.success

\* C15, as stated: no step other than the reset at the start of a request takes a
\* complete flag or final.success from True back to False.
C15_Original == [][~ResetStep => FlagsKept]_vars

\* C15, amended: the same, provided no request has arrived while an earlier
\* request was still being handled or its job was still running.
C15_FlagsMonotone == [][(~ResetStep /\ ~requests_overlapped) => FlagsKept]_vars

\* With requests one at a time, the second job is about to translate: the flags
\* of transcription and summary are set and stay set while it goes on.
C15_Witness ==
  \E r \in Requests :
    /\ r > 1 /\ ~requests_overlapped
    /\ wpc[r] \in {"m_translate", "t_translate"}
    /\ processing_status.transcription.complete
    /\ processing_status.summary.complete
    /\ ~processing_status.translation.complete

\* The names of the four entries of the status map.
StepNames == {"transcription", "summary", "translation", "final"}

\* C16: GET /status/<step> answers 400 with an error for every step that is not
\* one of the four entries, and whatever the step it changes nothing: the status
\* map and the handlers and workers are as they were.
C16_PollingReadsOnly ==
  [][caller' # caller =>
       /\ processing_status' = processing_status
       /\ UNCHANGED <<handlerVars, workerVars, calls, uploads>>
       /\ caller'.state = "answered"
       /\ caller'.step \notin StepNames =>
            /\ caller'.response.code = 400
            /\ caller'.response.key = "error"
       /\ caller'.step \in StepNames => caller'.response.code = 200
       /\ caller'.step \in Stages =>
            LET entry == processing_status[caller'.step]
                body == caller'.response.body
            IN  /\ body.complete.value = entry.complete
                /\ body.result = entry.result
                /\ body.progress = entry.progress
                /\ body.error.value = entry.error
       /\ caller'.step = "final" =>
            /\ ~caller'.response.body.complete.value
            /\ caller'.response.body.result = None
            /\ caller'.response.body.error = processing_status.final.error]_vars

\* While a job is running and the map holds its results, a poll for a step that
\* does not exist has been answered 400.
C16_Witness ==
  /\ caller.state = "answered"
  /\ caller.step \notin StepNames
  /\ caller.response.code = 400
  /\ \E r \in Requests : WorkerRunning(r)
  /\ processing_status.transcription.complete

\* The name holds only word characters, hyphens and dots.
SafeName(name) ==
  /\ \A i \in 1..Len(name) : IsWordChar(name[i]) \/ name[i] \in {"-", "."}
  /\ \A i \in 1..Len(name) :
       name[i] \notin {"/", "\\", " ", "\t", "\n", "\r", "<", ">", ":", "\"", "|", "?", "*"}

\* The path names a file directly inside the upload folder.
DirectlyInside(path) ==
  LET n == Len(UPLOAD_FOLDER)
      name == Drop(path, n + 1)
  IN  /\ Len(path) > n + 1
      /\ Take(path, n) = UPLOAD_FOLDER
      /\ path[n + 1] = "/"
      /\ "/" \notin Range(name) /\ "\\" \notin Range(name)
      /\ name \notin {<<".">>, <<".", ".">>}

\* C17: whatever the name, sanitize_filename returns only word characters,
\* hyphens and dots, so no path separator, no white space and none of
\* < > : " | ? *; and every upload is stored directly inside the upload folder.
C17_SanitizedNames ==
  /\ caller.state = "returned" => SafeName(caller.result)
  /\ \A r \in Requests :
       \A i \in 1..Len(calls[r]) :
         calls[r][i].op = "save" =>
           /\ DirectlyInside(calls[r][i].arg.chars)
           /\ SafeName(Drop(calls[r][i].arg.chars, Len(UPLOAD_FOLDER) + 1))
  /\ \A path \in uploads : DirectlyInside(path.chars)
  /\ \A r \in Requests : media_source[r] # None => DirectlyInside(media_source[r].chars)

\* An upload whose name climbs out of the folder has been stored inside it.
C17_Witness ==
  \E r \in Requests :
    /\ request[r] # None
    /\ Take(FieldChars(request[r].file), 3) = <<".", ".", "/">>
    /\ media_source[r] # None
    /\ media_source[r] \in uploads
    /\ DirectlyInside(media_source[r].chars)

=============================================================================
